---- MODULE Spec2Model ----
(***************************************************************************)
(* Model of royaleapi_ranked_cache.py: the page fetcher (fetch_html), the  *)
(* match extractor (parse_matches), the pagination cursor                  *)
(* (extract_next_before), the aggregator (card_counts) and the crawl       *)
(* orchestrator with its cache store (main).                               *)
(*                                                                         *)
(* Python values are represented as follows.                               *)
(*   - `int | None` is a sequence of length <= 1: None is <<>>, v is <<v>>. *)
(*   - a card key is a positive number n standing for the string "c<n>";   *)
(*     0 stands for the empty string.                                      *)
(*   - an HTML element is a record [tag, cls, key, src, href, kids].       *)
(*   - a page text is a record [text, nodes]: the text fragments outside   *)
(*     the elements the program looks at, and the element forest.          *)
(***************************************************************************)
EXTENDS Integers, Sequences, FiniteSets, TLC

(***************************************************************************)
(* Bounds of the model.                                                    *)
(***************************************************************************)
MaxImgs == 33
MaxLimit == 3
MaxAttemptsBound == 4
MaxAggMatches == 2

(***************************************************************************)
(* Python helpers.                                                         *)
(***************************************************************************)
None == <<>>
Some(v) == <<v>>

Min(a, b) == IF a <= b THEN a ELSE b
Max(a, b) == IF a >= b THEN a ELSE b

\* seq[lo:hi] of Python, 0-based and half-open, clipped to the sequence.
Slice(s, lo, hi) == SubSeq(s, lo + 1, Min(hi, Len(s)))

RECURSIVE Flatten(_)
Flatten(ss) == IF ss = <<>> THEN <<>> ELSE Head(ss) \o Flatten(Tail(ss))

(***************************************************************************)
(* HTML elements.  An attribute value is [present, pad, k]: pad says the   *)
(* raw value carries surrounding whitespace, k is its stripped content.    *)
(* An image source is [present, dir, lower, k]: the path is                *)
(* /<dir>/<segment>/ and `lower` says the segment is made of [a-z0-9-].    *)
(***************************************************************************)
NoAttr == [present |-> FALSE, pad |-> FALSE, k |-> 0]
Attr(k) == [present |-> TRUE, pad |-> FALSE, k |-> k]
PaddedAttr(k) == [present |-> TRUE, pad |-> TRUE, k |-> k]

NoSrc == [present |-> FALSE, dir |-> "", lower |-> FALSE, k |-> 0]
CardSrc(k) == [present |-> TRUE, dir |-> "cards", lower |-> TRUE, k |-> k]
UpperSrc(k) == [present |-> TRUE, dir |-> "cards", lower |-> FALSE, k |-> k]
OtherSrc(k) == [present |-> TRUE, dir |-> "static", lower |-> TRUE, k |-> k]

\* An href is [bad, query, frag]: `bad` says urlparse rejects it (an
\* unbalanced bracket in the host part), query and frag are the name=value
\* pairs before and after '#'.
NoHref == [bad |-> FALSE, query |-> <<>>, frag |-> <<>>]

Elem(tag, cls, key, src, href, kids) ==
    [tag |-> tag, cls |-> cls, key |-> key, src |-> src, href |-> href, kids |-> kids]

Img(cls, key, src) == Elem("img", cls, key, src, NoHref, <<>>)
Div(cls, kids) == Elem("div", cls, NoAttr, NoSrc, NoHref, kids)
Anchor(href) == Elem("a", {}, NoAttr, NoSrc, href, <<>>)

(***************************************************************************)
(* CSS selection.  A selector is a set of alternatives [tag, cls, attr];   *)
(* an element is selected once when it matches any of them.                *)
(***************************************************************************)
BATTLE_SELECTORS ==
    << {[tag |-> "div", cls |-> "battle_list_battle", attr |-> ""]},
       {[tag |-> "div", cls |-> "battle_list_battle_container", attr |-> ""]},
       {[tag |-> "div", cls |-> "battle", attr |-> ""]},
       {[tag |-> "div", cls |-> "battle__container", attr |-> ""]} >>

CARD_IMG_SELECTOR ==
    {[tag |-> "img", cls |-> "deck_card", attr |-> ""],
     [tag |-> "img", cls |-> "", attr |-> "data-card-key"]}

TEAM_SELECTORS ==
    << {[tag |-> "div", cls |-> "team-segment", attr |-> ""]},
       {[tag |-> "div", cls |-> "team_segment", attr |-> ""]},
       {[tag |-> "div", cls |-> "team", attr |-> ""]} >>

BEFORE_LINK_SELECTOR == {[tag |-> "a", cls |-> "", attr |-> "href*=before="]}

\* The text "before=" occurs in a pair whose name ends in "before".
ContainsBeforeEq(href) ==
    \/ \E i \in 1..Len(href.query) : href.query[i].name \in {"before", "xbefore"}
    \/ \E i \in 1..Len(href.frag) : href.frag[i].name \in {"before", "xbefore"}

HasAttr(n, attr) ==
    CASE attr = "" -> TRUE
      [] attr = "data-card-key" -> n.key.present
      [] attr = "href*=before=" -> ContainsBeforeEq(n.href)
      [] OTHER -> FALSE

MatchesSimple(n, s) ==
    /\ n.tag = s.tag
    /\ s.cls = "" \/ s.cls \in n.cls
    /\ HasAttr(n, s.attr)

MatchesSelector(n, sel) == \E s \in sel : MatchesSimple(n, s)

\* The descendants of a forest that match sel, in document order.
RECURSIVE SelectIn(_, _)
SelectIn(nodes, sel) ==
    IF nodes = <<>> THEN <<>>
    ELSE LET n == Head(nodes)
         IN (IF MatchesSelector(n, sel) THEN <<n>> ELSE <<>>)
            \o SelectIn(n.kids, sel) \o SelectIn(Tail(nodes), sel)

\* el.select(sel): the proper descendants of el that match.
Select(el, sel) == SelectIn(el.kids, sel)

\* for sel in sels: out.extend(select(sel))
RECURSIVE SelectEach(_, _)
SelectEach(nodes, sels) ==
    IF sels = <<>> THEN <<>>
    ELSE SelectIn(nodes, Head(sels)) \o SelectEach(nodes, Tail(sels))

(***************************************************************************)
(* Match extractor.                                                        *)
(***************************************************************************)
\* (img.get("data-card-key") or "").strip()
StripAttr(a) == IF a.present THEN a.k ELSE 0

\* re.search(r"/cards/([a-z0-9\-]+)/", src): the key, or 0 for no match.
SrcKey(s) == IF s.present /\ s.dir = "cards" /\ s.lower /\ s.k # 0 THEN s.k ELSE 0

ImgKey(img) ==
    LET key == StripAttr(img.key)
    IN IF key = 0 THEN SrcKey(img.src) ELSE key

RECURSIVE parse_deck_keys_from_imgs(_)
parse_deck_keys_from_imgs(imgs) ==
    IF imgs = <<>> THEN <<>>
    ELSE (IF ImgKey(Head(imgs)) # 0 THEN <<ImgKey(Head(imgs))>> ELSE <<>>)
         \o parse_deck_keys_from_imgs(Tail(imgs))

parse_deck_from_segment(seg) == parse_deck_keys_from_imgs(Select(seg, CARD_IMG_SELECTOR))

\* The team-segment decks are returned whole, without [:8].
parse_matches_from_battle_el_untruncated(el) ==
    LET team_segments == SelectEach(el.kids, TEAM_SELECTORS)
        winner == parse_deck_from_segment(team_segments[1])
        loser == parse_deck_from_segment(team_segments[2])
        keys == parse_deck_keys_from_imgs(Select(el, CARD_IMG_SELECTOR))
    IN IF Len(team_segments) >= 2 /\ Len(winner) >= 8 /\ Len(loser) >= 8
       THEN << [winner |-> winner, loser |-> loser] >>
       ELSE IF Len(keys) < 16 THEN <<>>
       ELSE << [winner |-> Slice(Slice(keys, 0, 16), 0, 8),
                loser |-> Slice(Slice(keys, 0, 16), 8, 16)] >>

parse_matches_from_battle_el(el) ==
    LET team_segments == SelectEach(el.kids, TEAM_SELECTORS)
        winner == parse_deck_from_segment(team_segments[1])
        loser == parse_deck_from_segment(team_segments[2])
        keys == parse_deck_keys_from_imgs(Select(el, CARD_IMG_SELECTOR))
    IN IF Len(team_segments) >= 2 /\ Len(winner) >= 8 /\ Len(loser) >= 8
       THEN << [winner |-> Slice(winner, 0, 8), loser |-> Slice(loser, 0, 8)] >>
       ELSE IF Len(keys) < 16 THEN <<>>
       ELSE << [winner |-> Slice(Slice(keys, 0, 16), 0, 8),
                loser |-> Slice(Slice(keys, 0, 16), 8, 16)] >>

RECURSIVE BattleLoop(_)
BattleLoop(battle_els) ==
    IF battle_els = <<>> THEN <<>>
    ELSE (IF Len(Select(Head(battle_els), CARD_IMG_SELECTOR)) < 16 THEN <<>>
          ELSE parse_matches_from_battle_el(Head(battle_els)))
         \o BattleLoop(Tail(battle_els))

\* The range stops one key early: range(0, len(keys) - 16, 16).
RECURSIVE ChunkLoop_short(_, _)
ChunkLoop_short(keys, i) ==
    IF i >= Len(keys) - 16 THEN <<>>
    ELSE LET chunk == Slice(keys, i, i + 16)
         IN IF Len(chunk) < 16 THEN <<>>
            ELSE << [winner |-> Slice(chunk, 0, 8), loser |-> Slice(chunk, 8, 16)] >>
                 \o ChunkLoop_short(keys, i + 16)

\* for i in range(0, len(keys) - 15, 16): chunk = keys[i : i + 16]
RECURSIVE ChunkLoop(_, _)
ChunkLoop(keys, i) ==
    IF i >= Len(keys) - 15 THEN <<>>
    ELSE LET chunk == Slice(keys, i, i + 16)
         IN IF Len(chunk) < 16 THEN <<>>
            ELSE << [winner |-> Slice(chunk, 0, 8), loser |-> Slice(chunk, 8, 16)] >>
                 \o ChunkLoop(keys, i + 16)

parse_matches(html) ==
    LET battle_els == SelectEach(html.nodes, BATTLE_SELECTORS)
    IN IF battle_els # <<>> THEN BattleLoop(battle_els)
       ELSE ChunkLoop(parse_deck_keys_from_imgs(SelectIn(html.nodes, CARD_IMG_SELECTOR)), 0)

(***************************************************************************)
(* Page texts used as inputs.  Image number i carries the key i, so the    *)
(* keys of a page are distinct and their order is visible in the result.   *)
(***************************************************************************)
Page(text, nodes) == [text |-> text, nodes |-> nodes]

ImgKinds == {"attr", "padded", "src", "nokey", "blank", "upper", "other"}

\* One card image of each kind; the last four yield no key.
CardImg(kind, k) ==
    CASE kind = "attr" -> Img({}, Attr(k), NoSrc)
      [] kind = "padded" -> Img({"deck_card"}, PaddedAttr(k), NoSrc)
      [] kind = "src" -> Img({"deck_card"}, NoAttr, CardSrc(k))
      [] kind = "nokey" -> Img({"deck_card"}, NoAttr, NoSrc)
      [] kind = "blank" -> Img({"deck_card"}, PaddedAttr(0), OtherSrc(k))
      [] kind = "upper" -> Img({"deck_card"}, NoAttr, UpperSrc(k))
      [] kind = "other" -> Img({"deck_card"}, Attr(0), OtherSrc(k))

\* Images from+1 .. from+n, all with a data-card-key, except image `odd`
\* (when it is in range), which is of kind `kind`.
Imgs(from, n, odd, kind) ==
    [i \in 1..n |-> IF from + i = odd THEN CardImg(kind, from + i)
                    ELSE CardImg("attr", from + i)]

BattleClasses ==
    {{"battle_list_battle"}, {"battle_list_battle_container"}, {"battle"},
     {"battle__container"}, {"battle", "battle__container"}}

TeamClasses == {{"team-segment"}, {"team_segment"}, {"team"}, {"team", "team-segment"}}

\* Pages without battle blocks: n images in a row.
FlatPages ==
    { Page(<<"welcome">>, Imgs(0, n, odd, kind)) :
        n \in 0..MaxImgs, odd \in {0, 1, 9, 16, 17}, kind \in ImgKinds }

\* A battle block with two team segments of n1 and n2 images and `extra`
\* images after them.
TeamBlock(bcls, c1, c2, from, n1, n2, extra, odd, kind) ==
    Div(bcls, << Div(c1, Imgs(from, n1, odd, kind)),
                 Div(c2, Imgs(from + n1, n2, odd, kind)) >>
              \o Imgs(from + n1 + n2, extra, odd, kind))

TeamPages ==
    { Page(<<"welcome">>, << TeamBlock(bcls, c1, c2, 0, n1, n2, extra, odd, kind) >>) :
        bcls \in BattleClasses, c1 \in TeamClasses, c2 \in TeamClasses,
        n1 \in 7..9, n2 \in 7..9, extra \in {0, 2},
        odd \in {0, 1}, kind \in {"src", "nokey"} }

\* A battle block without team segments, alone or nested in a container,
\* followed by a second block.
BlockPages ==
    { Page(<<"welcome">>,
           << Div(outer, << Div(bcls, Imgs(0, n, odd, kind)) >>),
              Div({"battle"}, Imgs(n, m, 0, "attr")) >>) :
        outer \in {{"wrap"}, {"battle_list_battle_container"}},
        bcls \in BattleClasses, n \in 15..17, m \in {0, 16},
        odd \in {0, 16}, kind \in {"src", "nokey"} }

\* Pages without battle blocks whose images lie in two wrappers.
WrappedPages ==
    { Page(<<"welcome">>, << Div(c, Imgs(0, n1, odd, "nokey")),
                             Div({"wrap"}, Imgs(n1, n2, odd, "upper")) >>) :
        c \in {{"team"}, {"wrap"}}, n1 \in 8..9, n2 \in {7, 8, 24}, odd \in {0, 1, 10} }

\* n card images without a key
KeylessImgs(n) == [i \in 1..n |-> CardImg("nokey", 0)]

\* A battle block whose only keyed images are the 8 of one team segment,
\* which is followed by nk images without a key; the segment is alone,
\* or wrapped in a second segment together with the keyless images.
OverlapPages ==
    { Page(<<"welcome">>,
           << Div(bcls, IF nested
                        THEN << Div(c, << Div(c, Imgs(0, 8, 0, "attr")) >> \o KeylessImgs(nk)) >>
                        ELSE << Div(c, Imgs(0, 8, 0, "attr")) >> \o KeylessImgs(nk)) >>) :
        bcls \in {{"battle"}, {"battle_list_battle"}}, c \in TeamClasses,
        nk \in 7..8, nested \in BOOLEAN }

ParsePages == FlatPages \cup TeamPages \cup BlockPages \cup WrappedPages \cup OverlapPages

(***************************************************************************)
(* Pagination cursor.  A query pair is [name, kind, n]; kind tells what    *)
(* the value text is: "digits" (the decimal digits of n), "intlike" (a     *)
(* text int() accepts that does not start with a digit, such as "-5" or    *)
(* " 7"), "digitsthen" (the digits of n followed by letters), "text"        *)
(* (letters) or "blank" (empty).                                           *)
(***************************************************************************)
Pair(name, kind, n) == [name |-> name, kind |-> kind, n |-> n]
Href(query, frag) == [bad |-> FALSE, query |-> query, frag |-> frag]
BadHref(query) == [bad |-> TRUE, query |-> query, frag |-> <<>>]

\* parse_qs(query)["before"]: the non-blank values given to "before".
RECURSIVE QsBefore(_)
QsBefore(query) ==
    IF query = <<>> THEN <<>>
    ELSE (IF Head(query).name = "before" /\ Head(query).kind # "blank"
          THEN <<Head(query)>> ELSE <<>>) \o QsBefore(Tail(query))

\* int(text) succeeds
IntParses(v) == v.kind \in {"digits", "intlike"}

\* The values of the occurrences of before=<digits> in a forest's markup.
RECURSIVE RegexBefore(_)
RegexBefore(nodes) ==
    IF nodes = <<>> THEN <<>>
    ELSE LET n == Head(nodes)
             pairs == n.href.query \o n.href.frag
             hits == SelectSeq(pairs, LAMBDA q : /\ q.name \in {"before", "xbefore"}
                                                 /\ q.kind \in {"digits", "digitsthen"})
         IN [i \in 1..Len(hits) |-> hits[i].n]
            \o RegexBefore(n.kids) \o RegexBefore(Tail(nodes))

Returned(v) == [raised |-> FALSE, val |-> v]
Raised == [raised |-> TRUE, val |-> None]

RECURSIVE AnchorLoop(_, _)
AnchorLoop(anchors, soup) ==
    IF anchors = <<>>
    THEN LET m == RegexBefore(soup.nodes)
         IN IF m # <<>> THEN Returned(Some(m[1])) ELSE Returned(None)
    ELSE LET href == Head(anchors).href
             qs == QsBefore(href.query)
         IN IF href.bad THEN Raised
            ELSE IF qs # <<>> /\ IntParses(qs[1]) THEN Returned(Some(qs[1].n))
            ELSE AnchorLoop(Tail(anchors), soup)

extract_next_before(soup) == AnchorLoop(SelectIn(soup.nodes, BEFORE_LINK_SELECTOR), soup)

(***************************************************************************)
(* Page fetcher.                                                           *)
(***************************************************************************)
BLOCK_TEXT_MARKERS ==
    {"just a moment", "cf-browser-verification", "checking your browser before accessing"}

\* str.lower() on the text fragments of the model.
Lower(s) ==
    CASE s = "Just a moment" -> "just a moment"
      [] s = "JUST A MOMENT" -> "just a moment"
      [] s = "CF-Browser-Verification" -> "cf-browser-verification"
      [] s = "Checking your browser before accessing" -> "checking your browser before accessing"
      [] s = "Welcome" -> "welcome"
      [] OTHER -> s

\* The markers are looked for in the text as received.
looks_like_block_page_cased(html) ==
    \E marker \in BLOCK_TEXT_MARKERS : \E i \in 1..Len(html.text) : html.text[i] = marker

looks_like_block_page(html) ==
    LET lower == [i \in 1..Len(html.text) |-> Lower(html.text[i])]
    IN \E marker \in BLOCK_TEXT_MARKERS : \E i \in 1..Len(lower) : lower[i] = marker

EmptyHtml == Page(<<>>, <<>>)

\* A response of requests.get: an exception, or a status and a text.
Exc == [exc |-> TRUE, status |-> 0, text |-> EmptyHtml]
Http(status, text) == [exc |-> FALSE, status |-> status, text |-> text]

\* The attempt ends the loop with `return r.text`.
Accepted(r) == ~r.exc /\ r.status = 200 /\ ~looks_like_block_page(r.text)

\* build_url: the query of the page request.  str(before) is a digit
\* string for before >= 0 and a signed text otherwise.
build_url(rank, lang, before) ==
    Href(<< Pair("lang", "text", lang), Pair("rank", "digits", rank) >>
         \o (IF before # None
             THEN << Pair("before", IF before[1] >= 0 THEN "digits" ELSE "intlike", before[1]) >>
             ELSE <<>>),
         <<>>)

(***************************************************************************)
(* Aggregator.  Card keys are ordered as numbers: key n stands for a       *)
(* zero-padded string, whose lexicographic order is the numeric one.       *)
(***************************************************************************)
\* The deck positions of all matches, winner side then loser side.
RECURSIVE Positions(_)
Positions(matches) ==
    IF matches = <<>> THEN <<>>
    ELSE Head(matches).winner \o Head(matches).loser \o Positions(Tail(matches))

\* A card is counted once for each match it appears in.
card_counts_per_match(matches) ==
    LET pos == SelectSeq(Positions(matches), LAMBDA k : k # 0)
        keys == {pos[i] : i \in 1..Len(pos)}
        In(k, m) == \E i \in 1..8 : m.winner[i] = k \/ m.loser[i] = k
    IN [k \in keys |-> Cardinality({i \in 1..Len(matches) : In(k, matches[i])})]

card_counts(matches) ==
    LET pos == SelectSeq(Positions(matches), LAMBDA k : k # 0)
        keys == {pos[i] : i \in 1..Len(pos)}
    IN [k \in keys |-> Cardinality({i \in 1..Len(pos) : pos[i] = k})]

\* Equal counts are ordered by descending key.
RECURSIVE SortedItems_ties_descending(_, _)
SortedItems_ties_descending(counts, keys) ==
    IF keys = {} THEN <<>>
    ELSE LET first == CHOOSE k \in keys : \A j \in keys :
                          \/ counts[k] > counts[j]
                          \/ counts[k] = counts[j] /\ k >= j
         IN << <<first, counts[first]>> >> \o SortedItems_ties_descending(counts, keys \ {first})

\* sorted(counts.items(), key=lambda x: (-x[1], x[0]))
RECURSIVE SortedItems(_, _)
SortedItems(counts, keys) ==
    IF keys = {} THEN <<>>
    ELSE LET first == CHOOSE k \in keys : \A j \in keys :
                          \/ counts[k] > counts[j]
                          \/ counts[k] = counts[j] /\ k <= j
         IN << <<first, counts[first]>> >> \o SortedItems(counts, keys \ {first})

\* round(v / total * 100, 2), in hundredths of a percent.
Rate(v, total) == IF total # 0 THEN (v * 20000 + total) \div (2 * total) ELSE 0

top_cards_out(counts, total_matches) ==
    LET top_cards == Slice(SortedItems(counts, DOMAIN counts), 0, 3)
    IN [i \in 1..Len(top_cards) |->
           [key |-> top_cards[i][1], count |-> top_cards[i][2],
            rate |-> Rate(top_cards[i][2], total_matches)]]

(***************************************************************************)
(* Cache store.  A file is None (absent) or Some(content); a content is    *)
(* the sequence of JSON tokens [k, t, v] written so far: an opening        *)
(* brace, one token per member (name k, type t, value v) and a closing     *)
(* brace.                                                                  *)
(***************************************************************************)
Tok(k, t, v) == [k |-> k, t |-> t, v |-> v]
Open == Tok("{", "", <<>>)
Close == Tok("}", "", <<>>)

BuildPayload(fetchedAt, rank, limit_, total_matches, top_cards, results_) ==
    << Tok("fetchedAt", "str", <<fetchedAt>>),
       Tok("source", "str", <<"royaleapi.com/decks/ranked">>),
       Tok("rankGate", "int", <<rank>>),
       Tok("limit", "int", <<limit_>>),
       Tok("totalMatches", "int", <<total_matches>>),
       Tok("topCards", "list", top_cards),
       Tok("matches", "list", results_) >>

\* json.dump(payload, f): the tokens in the order they are written.
Dump(payload_) == <<Open>> \o payload_ \o <<Close>>

\* json.load succeeds and gives a dict
IsDict(content) ==
    /\ Len(content) >= 2
    /\ content[1] = Open
    /\ content[Len(content)].k = "}"
    /\ \A i \in 2..(Len(content) - 1) : content[i].k \notin {"{", "}"}

load_existing_payload(file) ==
    IF file = None THEN None
    ELSE IF IsDict(file[1]) THEN Some(SubSeq(file[1], 2, Len(file[1]) - 1))
    ELSE None

\* payload.get(name): the member's token, or <<>>
Get(payload_, name) == SelectSeq(payload_, LAMBDA tk : tk.k = name)

count_payload_matches(p) ==
    IF p = None \/ p[1] = <<>> THEN 0
    ELSE LET matches == Get(p[1], "matches")
             total == Get(p[1], "totalMatches")
         IN IF matches # <<>> /\ matches[1].t = "list" THEN Len(matches[1].v)
            ELSE IF total # <<>> /\ total[1].t = "int" THEN total[1].v[1]
            ELSE 0

Field(content, name) == Get(content, name)[1].v

(***************************************************************************)
(* State.                                                                  *)
(***************************************************************************)
VARIABLES
    pc,                   \* position of the running code
    caller,               \* who called fetch_html: "main" or "call"
    limit,                \* args.limit
    allow_empty_success,  \* args.allow_empty_success
    results,              \* main: results
    before,               \* main: before
    existing_total,       \* main: existing_total
    payload,              \* main: payload
    exit_code,            \* process exit code, None while running
    out,                  \* the file at args.out
    tmp,                  \* the file at args.out + ".tmp"
    max_attempts,         \* fetch_html: max_attempts
    attempt,              \* fetch_html: attempt
    fret,                 \* fetch_html: returned value, [raised, val]
    stop,                 \* why the crawl loop was left, "" while it runs
    prior,                \* history: the file at args.out when main started
    requests,             \* history: the URLs requested, in order
    extracted,            \* history: the matches parsed from the fetched pages
    delays,               \* history: number of inter-request sleeps
    resps,                \* history: the responses of this fetch_html call
    slept,                \* history: the attempts followed by a retry sleep
    replaced,             \* history: number of os.replace calls on args.out
    pin,                  \* parse_matches: the page text given
    pout,                 \* parse_matches: the matches returned
    cout,                 \* extract_next_before: the outcome, [raised, val]
    ain,                  \* aggregation: the matches given
    acounts,              \* aggregation: the mapping returned by card_counts
    atop                  \* aggregation: top_cards_out

vars == << pc, caller, limit, allow_empty_success, results, before, existing_total,
           payload, exit_code, out, tmp, max_attempts, attempt, fret, stop, prior,
           requests, extracted, delays, resps, slept, replaced, pin, pout, cout,
           ain, acounts, atop >>

mainVars == << limit, allow_empty_success, results, before, existing_total, payload,
               exit_code, out, tmp, stop, prior, requests, extracted, delays, replaced >>
fetchVars == << max_attempts, attempt, fret, resps, slept >>
parseVars == << pin, pout, cout, ain, acounts, atop >>

(***************************************************************************)
(* Inputs of the crawl.                                                    *)
(***************************************************************************)
DEFAULT_RANK == 1000
DEFAULT_LANG == "en"
DEFAULT_MAX_ATTEMPTS == 3

Match(from) == [winner |-> [i \in 1..8 |-> from + i], loser |-> [i \in 1..8 |-> from + 8 + i]]

\* A payload written by an earlier run with a larger limit.
PriorPayload ==
    LET ms == << Match(100), Match(116), Match(132), Match(148) >>
    IN BuildPayload("earlier", DEFAULT_RANK, 1000, Len(ms),
                    top_cards_out(card_counts(ms), Len(ms)), ms)

PriorFiles ==
    { None,                                        \* no cache file
      Some(Dump(PriorPayload)),                    \* a valid cache
      Some(SubSeq(Dump(PriorPayload), 1, 5)),      \* a truncated one
      Some(<< Open, Tok("totalMatches", "int", <<40>>), Close >>) }

BeforeLink(n) == Anchor(Href(<< Pair("lang", "text", "en"), Pair("before", "digits", n) >>, <<>>))

\* The page texts the site serves during a crawl.
CrawlPages ==
    { Page(<<"Welcome">>, Imgs(0, 16, 0, "attr") \o << BeforeLink(5) >>),
      Page(<<"Welcome">>, << TeamBlock({"battle"}, {"team"}, {"team"}, 16, 9, 8, 0, 0, "attr"),
                             Div({"battle"}, Imgs(33, 16, 34, "src")),
                             BeforeLink(6) >>),
      Page(<<"Welcome">>, Imgs(50, 17, 51, "padded")),
      Page(<<"Welcome">>, Imgs(70, 16, 0, "attr") \o << BeforeLink(0) >>),
      Page(<<"Welcome">>, Imgs(90, 16, 0, "attr")
                          \o << Anchor(BadHref(<< Pair("before", "digits", 7) >>)) >>),
      Page(<<"Welcome">>, Imgs(110, 16, 0, "attr")
                          \o << Anchor(Href(<< Pair("before", "intlike", -5) >>, <<>>)) >>),
      Page(<<"Welcome">>, Imgs(0, 16, 3, "nokey") \o << BeforeLink(8) >>),
      EmptyHtml }

BlockPage == Page(<<"Checking your browser before accessing">>, Imgs(0, 16, 0, "attr"))

CrawlResponses ==
    { Exc, Http(503, Page(<<"Welcome">>, Imgs(0, 16, 0, "attr"))), Http(200, BlockPage) }
    \cup { Http(200, p) : p \in CrawlPages }

\* The responses given to a stand-alone call of fetch_html.
CallResponses ==
    { Exc,
      Http(503, Page(<<"Welcome">>, <<>>)),
      Http(404, Page(<<"just a moment">>, <<>>)),
      Http(200, Page(<<"just a moment">>, <<>>)),
      Http(200, Page(<<"Welcome", "JUST A MOMENT">>, <<>>)),
      Http(200, Page(<<"CF-Browser-Verification">>, <<>>)),
      Http(200, BlockPage),
      Http(200, Page(<<"Welcome">>, <<>>)),
      Http(200, Page(<<"moment">>, << BeforeLink(5) >>)),
      Http(200, EmptyHtml) }

Responses(c) == IF c = "main" THEN CrawlResponses ELSE CallResponses

(***************************************************************************)
(* fetch_html, one action per step of its retry loop.                      *)
(***************************************************************************)
\* The retry sleep is taken after every failed attempt.
RetrySleepDue_always(a, m) == TRUE

\* line 74: if attempt < max_attempts
RetrySleepDue(a, m) == a < m

\* One GET of the loop body and the handling of its outcome.
FetchAttempt ==
    /\ pc = "fetch_loop"
    /\ attempt <= max_attempts
    /\ \E r \in Responses(caller) :
         /\ resps' = Append(resps, r)
         /\ IF Accepted(r)
            THEN /\ fret' = Some(r.text)
                 /\ pc' = "fetch_ret"
                 /\ UNCHANGED attempt
            ELSE /\ UNCHANGED fret
                 /\ IF RetrySleepDue(attempt, max_attempts)
                    THEN pc' = "fetch_sleep" /\ UNCHANGED attempt
                    ELSE pc' = "fetch_loop" /\ attempt' = attempt + 1
    /\ UNCHANGED << caller, mainVars, max_attempts, slept, parseVars >>

\* time.sleep(retry_delay), then the next attempt
FetchSleep ==
    /\ pc = "fetch_sleep"
    /\ slept' = Append(slept, attempt)
    /\ attempt' = attempt + 1
    /\ pc' = "fetch_loop"
    /\ UNCHANGED << caller, mainVars, max_attempts, fret, resps, parseVars >>

\* the loop is exhausted: return None
FetchGiveUp ==
    /\ pc = "fetch_loop"
    /\ attempt > max_attempts
    /\ fret' = None
    /\ pc' = "fetch_ret"
    /\ UNCHANGED << caller, mainVars, max_attempts, attempt, resps, slept, parseVars >>

(***************************************************************************)
(* main                                                                    *)
(***************************************************************************)
\* lines 218-223: read the prior cache
Load ==
    /\ pc = "start"
    /\ existing_total' = count_payload_matches(load_existing_payload(out))
    /\ pc' = "loop"
    /\ UNCHANGED << caller, limit, allow_empty_success, results, before, payload, exit_code,
                    out, tmp, stop, prior, requests, extracted, delays, replaced,
                    fetchVars, parseVars >>

\* lines 225-227: the loop test, and the call of fetch_html
LoopTest ==
    /\ pc = "loop"
    /\ IF Len(results) < limit
       THEN /\ requests' = Append(requests, build_url(DEFAULT_RANK, DEFAULT_LANG, before))
            /\ attempt' = 1
            /\ resps' = <<>>
            /\ slept' = <<>>
            /\ pc' = "fetch_loop"
            /\ UNCHANGED stop
       ELSE /\ stop' = "limit"
            /\ pc' = "aggregate"
            /\ UNCHANGED << requests, attempt, resps, slept >>
    /\ UNCHANGED << caller, limit, allow_empty_success, results, before, existing_total,
                    payload, exit_code, out, tmp, prior, extracted, delays, replaced,
                    max_attempts, fret, parseVars >>

\* results.extend(matches), without the limit test
AppendUpTo_unlimited(res, matches, lim) == res \o matches

\* for m in matches: if len(results) >= limit: break; results.append(m)
RECURSIVE AppendUpTo(_, _, _)
AppendUpTo(res, matches, lim) ==
    IF matches = <<>> \/ Len(res) >= lim THEN res
    ELSE AppendUpTo(Append(res, Head(matches)), Tail(matches), lim)

\* `not html`
NotHtml(html) == html = None \/ html[1] = EmptyHtml

\* `not next_before`
NotInt(v) == v = None \/ v[1] = 0

\* A failed fetch ends the run as an error.
OnNoHtml_fatal ==
    /\ stop' = "no_html"
    /\ pc' = "exit"
    /\ exit_code' = Some(1)
    /\ UNCHANGED << results, before, extracted >>

\* lines 228-230: if not html: break
OnNoHtml ==
    /\ stop' = "no_html"
    /\ pc' = "aggregate"
    /\ UNCHANGED << results, before, extracted, exit_code >>

\* lines 228-242: the page returned by fetch_html is processed
ProcessPage ==
    /\ pc = "fetch_ret"
    /\ caller = "main"
    /\ IF NotHtml(fret)
       THEN OnNoHtml
       ELSE LET html == fret[1]
                matches == parse_matches(html)
                next_before == extract_next_before(html)
            IN IF matches = <<>>
               THEN /\ stop' = "no_matches"
                    /\ pc' = "aggregate"
                    /\ UNCHANGED << results, before, extracted, exit_code >>
               ELSE /\ results' = AppendUpTo(results, matches, limit)
                    /\ extracted' = extracted \o matches
                    /\ IF next_before.raised
                       THEN /\ pc' = "exit"
                            /\ stop' = "raised"
                            /\ exit_code' = Some(1)
                            /\ UNCHANGED before
                       ELSE IF NotInt(next_before.val) \/ next_before.val = before
                       THEN /\ pc' = "aggregate"
                            /\ stop' = "cursor"
                            /\ UNCHANGED << before, exit_code >>
                       ELSE /\ before' = next_before.val
                            /\ pc' = "delay"
                            /\ UNCHANGED << stop, exit_code >>
    /\ UNCHANGED << caller, limit, allow_empty_success, existing_total, payload, out, tmp,
                    prior, requests, delays, replaced, fetchVars, parseVars >>

\* line 243: time.sleep(args.delay)
Delay ==
    /\ pc = "delay"
    /\ delays' = delays + 1
    /\ pc' = "loop"
    /\ UNCHANGED << caller, limit, allow_empty_success, results, before, existing_total,
                    payload, exit_code, out, tmp, stop, prior, requests, extracted, replaced,
                    fetchVars, parseVars >>

\* The zero-match test never succeeds.
NothingCollected_never(total_matches) == total_matches < 0

\* line 247: if total_matches == 0
NothingCollected(total_matches) == total_matches = 0

\* The matches of the prior cache are kept in front of the new ones.
PayloadMatches_merged(results_) ==
    (IF load_existing_payload(out) # None
        /\ Get(load_existing_payload(out)[1], "matches") # <<>>
     THEN Field(load_existing_payload(out)[1], "matches") ELSE <<>>) \o results_

\* line 272: "matches": results
PayloadMatches(results_) == results_

\* lines 245-273: the zero-match policy, or the payload is built
Aggregate ==
    /\ pc = "aggregate"
    /\ LET counts == card_counts(results)
           total_matches == Len(results)
       IN IF NothingCollected(total_matches)
          THEN /\ exit_code' = Some(IF allow_empty_success THEN 0 ELSE 2)
               /\ pc' = "exit"
               /\ UNCHANGED payload
          ELSE /\ payload' = BuildPayload("now", DEFAULT_RANK, limit, total_matches,
                                          top_cards_out(counts, total_matches),
                                          PayloadMatches(results))
               /\ pc' = "open_tmp"
               /\ UNCHANGED exit_code
    /\ UNCHANGED << caller, limit, allow_empty_success, results, before, existing_total,
                    out, tmp, stop, prior, requests, extracted, delays, replaced,
                    fetchVars, parseVars >>

\* The output path is opened for writing as well.
OpenTmp_in_place ==
    /\ pc = "open_tmp"
    /\ tmp' = Some(<<>>)
    /\ out' = Some(<<>>)
    /\ pc' = "dump"
    /\ UNCHANGED << caller, limit, allow_empty_success, results, before, existing_total,
                    payload, exit_code, stop, prior, requests, extracted, delays,
                    replaced, fetchVars, parseVars >>

\* line 276: open(tmp_out, "w") creates or truncates the temporary file
OpenTmp ==
    /\ pc = "open_tmp"
    /\ tmp' = Some(<<>>)
    /\ pc' = "dump"
    /\ UNCHANGED << caller, limit, allow_empty_success, results, before, existing_total,
                    payload, exit_code, out, stop, prior, requests, extracted, delays,
                    replaced, fetchVars, parseVars >>

\* line 277: json.dump writes the next token; the file is closed after the last
DumpToken ==
    /\ pc = "dump"
    /\ IF Len(tmp[1]) < Len(Dump(payload))
       THEN tmp' = Some(Append(tmp[1], Dump(payload)[Len(tmp[1]) + 1])) /\ pc' = "dump"
       ELSE UNCHANGED tmp /\ pc' = "replace"
    /\ UNCHANGED << caller, limit, allow_empty_success, results, before, existing_total,
                    payload, exit_code, out, stop, prior, requests, extracted, delays,
                    replaced, fetchVars, parseVars >>

\* lines 278-281: os.replace(tmp_out, args.out); return 0
Replace ==
    /\ pc = "replace"
    /\ out' = tmp
    /\ tmp' = None
    /\ replaced' = replaced + 1
    /\ exit_code' = Some(0)
    /\ pc' = "exit"
    /\ UNCHANGED << caller, limit, allow_empty_success, results, before, existing_total,
                    payload, stop, prior, requests, extracted, delays, fetchVars, parseVars >>

(***************************************************************************)
(* A call of parse_matches on a page text.                                 *)
(***************************************************************************)
Parse ==
    /\ pc = "parse"
    /\ pout' = parse_matches(pin)
    /\ pc' = "parsed"
    /\ UNCHANGED << caller, mainVars, fetchVars, pin, cout, ain, acounts, atop >>

(***************************************************************************)
(* A call of extract_next_before on a parsed page.                         *)
(***************************************************************************)
ExtractCursor ==
    /\ pc = "cursor"
    /\ cout' = extract_next_before(pin)
    /\ pc' = "extracted"
    /\ UNCHANGED << caller, mainVars, fetchVars, pin, pout, ain, acounts, atop >>

(***************************************************************************)
(* The aggregation of lines 245-263 applied to a list of matches.          *)
(***************************************************************************)
CountCards ==
    /\ pc = "count"
    /\ acounts' = card_counts(ain)
    /\ atop' = top_cards_out(card_counts(ain), Len(ain))
    /\ pc' = "counted"
    /\ UNCHANGED << caller, mainVars, fetchVars, pin, pout, cout, ain >>

(***************************************************************************)
(* Specifications.                                                         *)
(***************************************************************************)
IdleMain ==
    /\ limit = 0 /\ allow_empty_success = FALSE /\ results = <<>> /\ before = None
    /\ existing_total = 0 /\ payload = <<>> /\ exit_code = None /\ out = None
    /\ tmp = None /\ stop = "" /\ prior = None /\ requests = <<>> /\ extracted = <<>>
    /\ delays = 0 /\ replaced = 0

IdleFetch == attempt = 1 /\ fret = None /\ resps = <<>> /\ slept = <<>>

IdleAgg == ain = <<>> /\ acounts = <<>> /\ atop = <<>>

IdleParse == pin = EmptyHtml /\ pout = <<>> /\ cout = Returned(None) /\ IdleAgg

\* A run of main: the state after argument parsing.
Init ==
    /\ pc = "start"
    /\ caller = "main"
    /\ limit \in 0..MaxLimit
    /\ allow_empty_success \in BOOLEAN
    /\ out \in PriorFiles
    /\ prior = out
    /\ tmp \in {None, Some(<<Open>>)}
    /\ results = <<>> /\ before = None /\ existing_total = 0 /\ payload = <<>>
    /\ exit_code = None /\ stop = "" /\ requests = <<>> /\ extracted = <<>>
    /\ delays = 0 /\ replaced = 0
    /\ max_attempts = DEFAULT_MAX_ATTEMPTS
    /\ IdleFetch
    /\ IdleParse

Next ==
    \/ Load
    \/ LoopTest
    \/ FetchAttempt
    \/ FetchSleep
    \/ FetchGiveUp
    \/ ProcessPage
    \/ Delay
    \/ Aggregate
    \/ OpenTmp
    \/ DumpToken
    \/ Replace

Spec == Init /\ [][Next]_vars

\* One call fetch_html(url, max_attempts=k).
FetchInit ==
    /\ pc = "fetch_loop"
    /\ caller = "call"
    /\ max_attempts \in 0..MaxAttemptsBound
    /\ IdleMain
    /\ IdleFetch
    /\ IdleParse

FetchNext == FetchAttempt \/ FetchSleep \/ FetchGiveUp

FetchSpec == FetchInit /\ [][FetchNext]_vars

\* One call parse_matches(html).
ParseInit ==
    /\ pc = "parse"
    /\ caller = "call"
    /\ max_attempts = DEFAULT_MAX_ATTEMPTS
    /\ IdleMain
    /\ IdleFetch
    /\ pin \in ParsePages
    /\ pout = <<>>
    /\ cout = Returned(None)
    /\ IdleAgg

ParseNext == Parse

ParseSpec == ParseInit /\ [][ParseNext]_vars

\* The link targets of the pages given to extract_next_before.
CursorHrefs ==
    { Href(<< Pair("lang", "text", "en"), Pair("before", "digits", 5) >>, <<>>),
      Href(<< Pair("before", "digits", 0) >>, <<>>),
      Href(<< Pair("before", "text", 0) >>, <<>>),
      Href(<< Pair("before", "intlike", -5) >>, <<>>),
      Href(<< Pair("before", "digitsthen", 12) >>, <<>>),
      Href(<< Pair("before", "blank", 0), Pair("xbefore", "digits", 7) >>, <<>>),
      Href(<< Pair("before", "text", 0), Pair("before", "digits", 4) >>, <<>>),
      Href(<< Pair("lang", "text", "en") >>, << Pair("before", "digits", 3) >>),
      Href(<< Pair("lang", "text", "en") >>, <<>>),
      BadHref(<< Pair("before", "digits", 9) >>) }

\* Pages with up to two links.
CursorPages ==
    { Page(<<"welcome">>, <<>>) }
    \cup { Page(<<"welcome">>, << Anchor(h) >>) : h \in CursorHrefs }
    \cup { Page(<<"welcome">>, << Div({"nav"}, << Anchor(h1) >>), Anchor(h2) >>) :
             h1 \in CursorHrefs, h2 \in CursorHrefs }

\* One call extract_next_before(soup).
CursorInit ==
    /\ pc = "cursor"
    /\ caller = "call"
    /\ max_attempts = DEFAULT_MAX_ATTEMPTS
    /\ IdleMain
    /\ IdleFetch
    /\ pin \in CursorPages
    /\ pout = <<>>
    /\ cout = Returned(None)
    /\ IdleAgg

CursorNext == ExtractCursor

CursorSpec == CursorInit /\ [][CursorNext]_vars

\* A deck whose first j cards are x and whose other cards are y.
Deck(x, y, j) == [i \in 1..8 |-> IF i <= j THEN x ELSE y]

\* A match of two players with the same 8 cards.
Mirror(from) == [winner |-> [i \in 1..8 |-> from + i], loser |-> [i \in 1..8 |-> from + i]]

\* The matches given to the aggregation: decks of distinct cards, mirror
\* matches, and decks of one or two cards repeated.
AggMatches ==
    { Match(0), Match(8), Match(16), Mirror(0), Mirror(4) }
    \cup { [winner |-> Deck(x, y, j), loser |-> Deck(u, u, 8)] :
             x \in 1..2, y \in 1..2, u \in 1..3, j \in {4, 8} }

AggInputs ==
    UNION { [1..n -> AggMatches] : n \in 0..MaxAggMatches }

\* One aggregation of a list of matches.
AggInit ==
    /\ pc = "count"
    /\ caller = "call"
    /\ max_attempts = DEFAULT_MAX_ATTEMPTS
    /\ IdleMain
    /\ IdleFetch
    /\ pin = EmptyHtml /\ pout = <<>> /\ cout = Returned(None)
    /\ ain \in AggInputs
    /\ acounts = <<>>
    /\ atop = <<>>

AggNext == CountCards

AggSpec == AggInit /\ [][AggNext]_vars

\* The extractor called on a page text of its own, or from a run of main.
ExtractSpec == (Init \/ ParseInit) /\ [][Next \/ ParseNext]_vars

(***************************************************************************)
(* Properties.                                                             *)
(***************************************************************************)
LoopLeft == pc \in {"aggregate", "open_tmp", "dump", "replace", "exit"}
InFetch == pc \in {"fetch_loop", "fetch_sleep", "fetch_ret"}
ValidPrior == Some(Dump(PriorPayload))

\* C1: a run that has collected no match leaves the file at the output
\* path as it found it, whatever the prior file and the fetch outcomes:
\* the file is never replaced, truncated or deleted while results is empty.
C1_ZeroMatchRunKeepsFile ==
    results = <<>> => (out = prior /\ replaced = 0)

C1_Witness ==
    /\ pc = "exit" /\ results = <<>> /\ Len(requests) = 1 /\ stop = "no_html"
    /\ Len(resps) = DEFAULT_MAX_ATTEMPTS
    /\ prior = ValidPrior /\ out = ValidPrior /\ existing_total = 4

\* C2: every match returned by parse_matches, accumulated by the crawl or
\* written to the output file has exactly 8 non-empty winner keys and
\* exactly 8 non-empty loser keys.
EightEight(m) ==
    /\ Len(m.winner) = 8 /\ Len(m.loser) = 8
    /\ \A i \in 1..Len(m.winner) : m.winner[i] # 0
    /\ \A i \in 1..Len(m.loser) : m.loser[i] # 0

AllEightEight(ms) == \A i \in 1..Len(ms) : EightEight(ms[i])

C2_MatchCardinality ==
    /\ AllEightEight(pout)
    /\ AllEightEight(results)
    /\ (out # None /\ IsDict(out[1]) /\ Get(out[1], "matches") # <<>>)
          => AllEightEight(Field(out[1], "matches"))

\* a team-segment split whose first segment holds 9 keyed images
C2_Witness ==
    /\ pc = "parsed" /\ Len(pout) = 1
    /\ Len(pin.nodes) = 1 /\ Len(pin.nodes[1].kids) >= 2
    /\ pin.nodes[1].kids[1].tag = "div"
    /\ Len(parse_deck_from_segment(pin.nodes[1].kids[1])) = 9
    /\ pout[1].winner = <<1, 2, 3, 4, 5, 6, 7, 8>>

\* C3: the accumulated matches never exceed the limit, no fetch is under
\* way once the limit is reached, and the accumulated list is the first
\* min(limit, N) of the N matches extracted from the fetched pages.
C3_LimitRespected ==
    /\ Len(results) <= limit
    /\ InFetch => Len(results) < limit
    /\ results = SubSeq(extracted, 1, Min(limit, Len(extracted)))

\* limit 1, the first page yields 2 matches: one is kept, one page fetched
C3_Witness ==
    /\ pc = "exit" /\ limit = 1 /\ Len(extracted) = 2 /\ Len(results) = 1
    /\ Len(requests) = 1 /\ stop = "limit"

\* C4: the file at the output path is at every instant either the prior
\* file or the complete new payload; partial content is only ever in the
\* temporary file.
C4_AtomicReplace ==
    \/ out = prior
    \/ payload # <<>> /\ out = Some(Dump(payload)) /\ tmp = None

\* the temporary file is half written over a valid prior cache
C4_Witness ==
    /\ pc = "dump" /\ tmp # None /\ Len(tmp[1]) = 4
    /\ prior = ValidPrior /\ out = ValidPrior

\* C5: the exit code is 0 exactly when a match was collected and the
\* payload written, or no match was collected and allow-empty-success is
\* set; it is 2 exactly when no match was collected and the flag is not set.
C5_ExitCode ==
    pc = "exit" =>
        /\ exit_code = Some(0) <=>
              \/ Len(results) >= 1 /\ replaced = 1 /\ out = Some(Dump(payload))
              \/ Len(results) = 0 /\ allow_empty_success
        /\ exit_code # Some(0) <=> (Len(results) = 0 /\ ~allow_empty_success)
        /\ exit_code # Some(0) => exit_code = Some(2)

\* C6: fetch_html returns the text of the first response that is not a
\* soft failure, and a soft failure (an exception, a status other than 200,
\* a 200 whose text holds a block marker in any letter case) is never the
\* response whose text is returned.
MarkerSpellings ==
    {"just a moment", "Just a moment", "JUST A MOMENT",
     "cf-browser-verification", "CF-Browser-Verification",
     "checking your browser before accessing", "Checking your browser before accessing"}

SoftFailure(r) ==
    \/ r.exc
    \/ r.status # 200
    \/ \E i \in 1..Len(r.text.text) : r.text.text[i] \in MarkerSpellings

C6_BodyOnlyFromCleanResponse ==
    (pc = "fetch_ret" /\ fret # None) =>
        /\ resps # <<>>
        /\ ~SoftFailure(resps[Len(resps)])
        /\ fret = Some(resps[Len(resps)].text)
        /\ \A i \in 1..(Len(resps) - 1) : SoftFailure(resps[i])

\* returned on the third attempt, after a block page in capitals and an exception
C6_Witness ==
    /\ pc = "fetch_ret" /\ fret # None /\ Len(resps) = 3
    /\ resps[1] = Http(200, Page(<<"Welcome", "JUST A MOMENT">>, <<>>))
    /\ resps[2] = Exc

\* C7: a call with max_attempts = k makes at most k attempts, none after
\* a success, returns None exactly when all k attempts were soft failures,
\* and sleeps once after each attempt but the last.
C7_BoundedRetries ==
    /\ Len(resps) <= max_attempts
    /\ \A i \in 1..(Len(resps) - 1) : SoftFailure(resps[i])
    /\ slept = [i \in 1..Len(slept) |-> i]
    /\ Len(slept) <= Max(Len(resps) - 1, 0) + (IF pc = "fetch_loop" /\ resps # <<>> THEN 1 ELSE 0)
    /\ Len(slept) <= Max(max_attempts - 1, 0)
    /\ pc = "fetch_ret" =>
          /\ Len(slept) = Max(Len(resps) - 1, 0)
          /\ fret = None <=> /\ Len(resps) = max_attempts
                             /\ \A i \in 1..Len(resps) : SoftFailure(resps[i])

C7_Witness ==
    /\ pc = "fetch_ret" /\ fret = None /\ max_attempts = 3
    /\ Len(resps) = 3 /\ slept = <<1, 2>>

\* The cursor carried by a request: the value of its before parameter.
ReqBefore(url) ==
    LET b == SelectSeq(url.query, LAMBDA q : q.name = "before")
    IN IF b = <<>> THEN None ELSE Some(b[1].n)

\* C8: the first request carries no cursor; after a page with matches the
\* crawl stops on the cursor test only when the extracted cursor is absent
\* or equal to the current one, and every other extracted integer becomes
\* the cursor, is followed by one sleep and is the before of the next request.
C8_CursorAdvance ==
    /\ requests # <<>> => ReqBefore(requests[1]) = None
    /\ (stop = "cursor" /\ Len(results) < limit) =>
          \/ extract_next_before(fret[1]).val = None
          \/ extract_next_before(fret[1]).val = before
    /\ pc = "delay" =>
          /\ extract_next_before(fret[1]).val # None
          /\ extract_next_before(fret[1]).val # ReqBefore(requests[Len(requests)])
          /\ before = extract_next_before(fret[1]).val
          /\ delays = Len(requests) - 1
    /\ (InFetch /\ caller = "main") =>
          /\ ReqBefore(requests[Len(requests)]) = before
          /\ delays = Len(requests) - 1

\* C9: the crawl loop is left in one of the four stopped states (limit
\* reached, fetch failed, no matches on page, cursor absent or unchanged),
\* after at most max(limit, 0) page requests.
C9_StopsInOneOfFour ==
    /\ LoopLeft => stop \in {"limit", "no_html", "no_matches", "cursor"}
    /\ Len(requests) <= Max(limit, 0)

\* C10: once the crawl has stopped no page is requested; a stop on a failed
\* fetch or on a page without matches keeps every match of the earlier
\* pages, and when there is at least one the run writes exactly those
\* matches and exits 0.
C10_PartialResultsKept ==
    /\ stop # "" => LoopLeft
    /\ stop \in {"no_html", "no_matches"} => results = extracted
    /\ (stop \in {"no_html", "no_matches"} /\ pc = "exit" /\ Len(results) >= 1) =>
          /\ exit_code = Some(0)
          /\ out # None /\ IsDict(out[1])
          /\ Field(out[1], "matches") = results
          /\ Field(out[1], "totalMatches") = << Len(results) >>
          /\ replaced = 1

\* the second page cannot be fetched: the first page's match is written
C10_Witness ==
    /\ pc = "exit" /\ stop = "no_html" /\ Len(requests) = 2 /\ Len(results) = 1
    /\ exit_code = Some(0) /\ fret = None

(***************************************************************************)
(* The page as the properties of the extractor describe it.                *)
(***************************************************************************)
\* A card image: an img of class deck_card or with a data-card-key.
IsCardImage(n) == n.tag = "img" /\ ("deck_card" \in n.cls \/ n.key.present)

\* The key an image carries: a non-blank data-card-key, else the segment
\* of a /cards/<key>/ source path, else none (0).
KeyOfImage(img) ==
    IF img.key.present /\ img.key.k # 0 THEN img.key.k
    ELSE IF img.src.present /\ img.src.dir = "cards" /\ img.src.lower THEN img.src.k
    ELSE 0

\* The keys of the images of a forest, in document order.
RECURSIVE KeysOf(_)
KeysOf(nodes) ==
    IF nodes = <<>> THEN <<>>
    ELSE LET n == Head(nodes)
         IN (IF IsCardImage(n) /\ KeyOfImage(n) # 0 THEN << KeyOfImage(n) >> ELSE <<>>)
            \o KeysOf(n.kids) \o KeysOf(Tail(nodes))

BattleClassNames ==
    {"battle_list_battle", "battle_list_battle_container", "battle", "battle__container"}

TeamClassNames == {"team-segment", "team_segment", "team"}

\* The elements of a forest carrying one of the class names, each once,
\* in document order.
RECURSIVE ElementsOfClass(_, _)
ElementsOfClass(nodes, names) ==
    IF nodes = <<>> THEN <<>>
    ELSE LET n == Head(nodes)
         IN (IF n.tag = "div" /\ n.cls \cap names # {} THEN <<n>> ELSE <<>>)
            \o ElementsOfClass(n.kids, names) \o ElementsOfClass(Tail(nodes), names)

BattleBlocks(page) == ElementsOfClass(page.nodes, BattleClassNames)

\* C11: on a page without battle blocks whose images yield n keys,
\* parse_matches returns floor(n/16) matches, the i-th made of keys
\* 16i..16i+7 (winner) and 16i+8..16i+15 (loser); a trailing group of
\* fewer than 16 keys gives nothing.
C11_WholePageChunks ==
    (pc = "parsed" /\ BattleBlocks(pin) = <<>>) =>
        LET keys == KeysOf(pin.nodes)
        IN /\ Len(pout) = Len(keys) \div 16
           /\ \A i \in 0..(Len(pout) - 1) :
                 /\ pout[i + 1].winner = SubSeq(keys, 16 * i + 1, 16 * i + 8)
                 /\ pout[i + 1].loser = SubSeq(keys, 16 * i + 9, 16 * i + 16)

\* 33 images of which one has no key: 32 keys, two matches
C11_Witness ==
    /\ pc = "parsed" /\ BattleBlocks(pin) = <<>>
    /\ Len(pin.nodes) = 33 /\ Len(KeysOf(pin.nodes)) = 32 /\ Len(pout) = 2
    /\ pout[2].loser[8] = 33

\* A battle block qualifies when it holds at least 16 card images with a key.
Qualifies(block) == Len(KeysOf(block.kids)) >= 16

\* C12: on a page with battle blocks parse_matches returns one match per
\* qualifying block, every block being counted once however many of the
\* battle selectors it matches; other blocks give nothing and the page is
\* not chunked as a whole.
C12_OneMatchPerBlock ==
    (pc = "parsed" /\ BattleBlocks(pin) # <<>>) =>
        Len(pout) = Len(SelectSeq(BattleBlocks(pin), Qualifies))

\* C13: no match comes from a battle block, or from a page without
\* blocks, that has fewer than 16 card images yielding a key, however the
\* team segments of the block are arranged; every key of a match is the
\* key of an image of the page.
C13_NoMatchBelowSixteenKeys ==
    pc = "parsed" =>
        /\ (BattleBlocks(pin) = <<>> /\ Len(KeysOf(pin.nodes)) < 16) => pout = <<>>
        /\ (BattleBlocks(pin) # <<>> /\ SelectSeq(BattleBlocks(pin), Qualifies) = <<>>)
              => pout = <<>>
        /\ \A i \in 1..Len(pout) : \A j \in 1..8 :
              \E k \in 1..Len(KeysOf(pin.nodes)) :
                 pout[i].winner[j] = KeysOf(pin.nodes)[k]

\* The team segments of a block: its descendants of a team class, each
\* once, in document order.
TeamSegments(block) == ElementsOfClass(block.kids, TeamClassNames)

\* The match a qualifying block is to give.
ExpectedMatch(block) ==
    LET segs == TeamSegments(block)
        keys == KeysOf(block.kids)
    IN IF /\ Len(segs) >= 2
          /\ Len(KeysOf(segs[1].kids)) >= 8
          /\ Len(KeysOf(segs[2].kids)) >= 8
       THEN [winner |-> SubSeq(KeysOf(segs[1].kids), 1, 8),
             loser |-> SubSeq(KeysOf(segs[2].kids), 1, 8)]
       ELSE [winner |-> SubSeq(keys, 1, 8), loser |-> SubSeq(keys, 9, 16)]

\* C14: a qualifying block with two team segments of at least 8 keys each
\* gives winner = the first 8 keys of the first segment and loser = the
\* first 8 keys of the second, the segments taken in document order
\* whatever their class names; any other qualifying block gives the flat
\* split of its first 16 keys, and a block that does not qualify nothing.
C14_TeamSegmentSplit ==
    (pc = "parsed" /\ Len(BattleBlocks(pin)) = 1) =>
        LET block == BattleBlocks(pin)[1]
        IN IF Qualifies(block)
           THEN pout # <<>> /\ \A i \in 1..Len(pout) : pout[i] = ExpectedMatch(block)
           ELSE pout = <<>>

\* The links of a forest, in document order.
RECURSIVE LinksOf(_)
LinksOf(nodes) ==
    IF nodes = <<>> THEN <<>>
    ELSE LET n == Head(nodes)
         IN (IF n.tag = "a" THEN <<n>> ELSE <<>>) \o LinksOf(n.kids) \o LinksOf(Tail(nodes))

\* The integer a link gives as its before parameter, if any: the first
\* non-blank value of "before" in the query, when int() accepts it.
LinkCursor(a) ==
    LET vs == SelectSeq(a.href.query, LAMBDA q : q.name = "before" /\ q.kind # "blank")
    IN IF vs # <<>> /\ vs[1].kind \in {"digits", "intlike"} THEN Some(vs[1].n) ELSE None

\* The numbers of the before=<digits> occurrences of a forest's markup.
RawCursors(nodes) ==
    LET links == LinksOf(nodes)
        pairs == Flatten([i \in 1..Len(links) |-> links[i].href.query \o links[i].href.frag])
        hits == SelectSeq(pairs, LAMBDA q : /\ q.name \in {"before", "xbefore"}
                                            /\ q.kind \in {"digits", "digitsthen"})
    IN [i \in 1..Len(hits) |-> hits[i].n]

\* C15: extract_next_before never raises; it returns the before value of
\* the first link, in document order, that gives an integer, else the
\* first before=<digits> of the raw page text, else None.
C15_NextCursor ==
    pc = "extracted" =>
        LET links == SelectSeq(LinksOf(pin.nodes), LAMBDA a : LinkCursor(a) # None)
            raw == RawCursors(pin.nodes)
        IN /\ ~cout.raised
           /\ cout.val = IF links # <<>> THEN LinkCursor(links[1])
                         ELSE IF raw # <<>> THEN Some(raw[1])
                         ELSE None

(***************************************************************************)
(* The aggregation as its properties describe it.                          *)
(***************************************************************************)
\* Number of positions of a deck holding the card k.
RECURSIVE InDeck(_, _)
InDeck(deck, k) ==
    IF deck = <<>> THEN 0
    ELSE (IF Head(deck) = k THEN 1 ELSE 0) + InDeck(Tail(deck), k)

\* Number of deck positions of the matches holding the card k.
RECURSIVE Occurrences(_, _)
Occurrences(matches, k) ==
    IF matches = <<>> THEN 0
    ELSE InDeck(Head(matches).winner, k) + InDeck(Head(matches).loser, k)
         + Occurrences(Tail(matches), k)

\* Number of matches in which the card k appears.
RECURSIVE MatchesWith(_, _)
MatchesWith(matches, k) ==
    IF matches = <<>> THEN 0
    ELSE (IF InDeck(Head(matches).winner, k) + InDeck(Head(matches).loser, k) > 0
          THEN 1 ELSE 0) + MatchesWith(Tail(matches), k)

CardsOf(matches) ==
    UNION { {matches[i].winner[j] : j \in 1..8} \cup {matches[i].loser[j] : j \in 1..8} :
            i \in 1..Len(matches) }

RECURSIVE SumOver(_, _)
SumOver(f, keys) ==
    IF keys = {} THEN 0
    ELSE LET k == CHOOSE x \in keys : TRUE
         IN f[k] + SumOver(f, keys \ {k})

Reverse(seq) == [i \in 1..Len(seq) |-> seq[Len(seq) + 1 - i]]

\* The card a ranks before the card b: more occurrences, or as many and a
\* smaller key.
RanksBefore(matches, a, b) ==
    \/ Occurrences(matches, a) > Occurrences(matches, b)
    \/ Occurrences(matches, a) = Occurrences(matches, b) /\ a < b

\* C16: topCards has min(3, number of distinct cards) entries with count
\* >= 1, in descending count and, for equal counts, strictly ascending key;
\* no card left out ranks before a card listed; the list is the same for
\* the matches taken in another order.
C16_TopCardsRanking ==
    pc = "counted" =>
        /\ Len(atop) = Min(3, Cardinality(CardsOf(ain)))
        /\ \A i \in 1..Len(atop) :
              /\ atop[i].key \in CardsOf(ain)
              /\ atop[i].count = Occurrences(ain, atop[i].key)
              /\ atop[i].count >= 1
        /\ \A i \in 1..Len(atop) : \A j \in 1..Len(atop) :
              i < j => RanksBefore(ain, atop[i].key, atop[j].key)
        /\ \A k \in CardsOf(ain) : \A i \in 1..Len(atop) :
              (\A j \in 1..Len(atop) : atop[j].key # k) => RanksBefore(ain, atop[i].key, k)
        /\ top_cards_out(card_counts(Reverse(ain)), Len(ain)) = atop

\* two matches, the three top cards all with the same count
C16_Witness ==
    /\ pc = "counted" /\ Len(ain) = 2 /\ Len(atop) = 3
    /\ atop[1].count = atop[3].count
    /\ Cardinality(CardsOf(ain)) > 3
    /\ ain[1] # ain[2]

\* C17: the count of a card of topCards is the number of matches the card
\* appears in, so it is at most totalMatches and the rate at most 100, also
\* for a card in both decks of a match.
C17_RateAtMostHundred ==
    pc = "counted" =>
        \A i \in 1..Len(atop) :
           /\ atop[i].count = MatchesWith(ain, atop[i].key)
           /\ atop[i].count <= Len(ain)
           /\ atop[i].rate <= 10000

\* C18: card_counts maps every card of the matches to the number of deck
\* positions holding it, winner and loser sides together, without
\* deduplication; the counts add up to 16 * len(matches) and each is >= 1.
C18_CountsArePositions ==
    pc = "counted" =>
        /\ DOMAIN acounts = CardsOf(ain)
        /\ \A k \in DOMAIN acounts :
              acounts[k] = Occurrences(ain, k) /\ acounts[k] >= 1
        /\ SumOver(acounts, DOMAIN acounts) = 16 * Len(ain)

\* a card held by both decks of both matches is counted four times
C18_Witness ==
    /\ pc = "counted" /\ Len(ain) = 2
    /\ \E k \in DOMAIN acounts : acounts[k] = 4 /\ MatchesWith(ain, k) = 2
    /\ Cardinality(DOMAIN acounts) >= 8

\* C19: the output file is replaced at most once, after the crawl loop has
\* stopped, by a payload made of this run alone: its matches are the
\* accumulated ones, totalMatches is their number, between 1 and limit,
\* topCards has at most 3 entries, and the whole content is determined by
\* limit and the accumulated matches, whatever the prior cache.
C19_PayloadOfThisRun ==
    /\ replaced <= 1
    /\ out # prior => replaced = 1
    /\ replaced = 1 =>
          /\ pc = "exit" /\ stop # ""
          /\ Field(out[1], "matches") = results
          /\ Field(out[1], "totalMatches") = << Len(results) >>
          /\ 1 <= Len(results) /\ Len(results) <= limit
          /\ Len(Field(out[1], "topCards")) <= 3
          /\ out = Some(Dump(BuildPayload("now", DEFAULT_RANK, limit, Len(results),
                                          top_cards_out(card_counts(results), Len(results)),
                                          results)))

\* one match written over a valid prior cache of four
C19_Witness ==
    /\ replaced = 1 /\ prior = ValidPrior /\ existing_total = 4
    /\ Len(results) = 1 /\ Len(Field(out[1], "matches")) = 1

\* C20: the crawl stops on a failed fetch only after max_attempts soft
\* failures on that page: a response accepted by fetch_html is never the
\* cause of the fetch-failed stop.
C20_FailedOnlyWhenExhausted ==
    stop = "no_html" =>
        /\ fret = None
        /\ Len(resps) = max_attempts
        /\ \A i \in 1..Len(resps) : SoftFailure(resps[i])

====
